---------------------------- MODULE Spec2Model ----------------------------
(***************************************************************************)
(* Model of pkg/fission-cli/upgrade.go: the name remapper (trackName) and  *)
(* the dump / restore passes of the v0.1 -> v0.2 state upgrade.            *)
(*                                                                         *)
(* A name is a sequence of one-character strings, so that the regular      *)
(* expressions, the truncation and the suffix formatting of trackName are  *)
(* computed character by character.                                        *)
(***************************************************************************)
EXTENDS Integers, Sequences, FiniteSets, TLC

VARIABLES
    nr,        \* the nameRemapper: [oldToNew : map, newNames : set of keys]
    calls,     \* history: the arguments of the trackName calls made so far
    pc,        \* position of the upgrade run
    v1state,   \* the V1FissionState being dumped / restored
    funcMetaSet, \* upgradeDumpV1State: referenced function metadata
    funcs,     \* upgradeDumpV1State: fetched functions, keyed by Metadata
    pending,   \* upgradeDumpV1State: metadata the fetch loop has not visited yet
    idx,       \* upgradeRestoreState: index in the collection being created
    pkg,       \* upgradeRestoreState: the package created for the current function
    issued     \* history: the creation calls issued to the client, in order

vars == <<nr, calls, pc, v1state, funcMetaSet, funcs, pending, idx, pkg, issued>>

-----------------------------------------------------------------------------
(* Bounds of the model *)

\* trackName calls made on one remapper in RemapSpec
MaxCalls == 3
\* every name over Alphabet up to this length is an input of trackName
MaxNameLen == 1
\* entities (functions, environments, triggers, watches) on the v0.1 server
MaxEntities == 3

-----------------------------------------------------------------------------
(* Characters *)

LowerSeq == <<"a","b","c","d","e","f","g","h","i","j","k","l","m",
              "n","o","p","q","r","s","t","u","v","w","x","y","z">>
UpperSeq == <<"A","B","C","D","E","F","G","H","I","J","K","L","M",
              "N","O","P","Q","R","S","T","U","V","W","X","Y","Z">>
DigitSeq == <<"0","1","2","3","4","5","6","7","8","9">>

Range(s) == { s[i] : i \in 1..Len(s) }

LowerChars == Range(LowerSeq)
UpperChars == Range(UpperSeq)
DigitChars == Range(DigitSeq)

\* strings.ToLower, one character
toLowerChar(c) ==
    IF c \in UpperChars
    THEN LowerSeq[CHOOSE i \in 1..Len(UpperSeq) : UpperSeq[i] = c]
    ELSE c

\* strings.ToLower
toLower(s) == [i \in 1..Len(s) |-> toLowerChar(s[i])]

\* the kubernetes name length limit of trackName
maxLen == 63

\* regexp.MatchString("^[a-z0-9]([-a-z0-9]*[a-z0-9])?$", s)
kubeNameRegex(s) ==
    /\ Len(s) >= 1
    /\ s[1] \in LowerChars \cup DigitChars
    /\ s[Len(s)] \in LowerChars \cup DigitChars
    /\ \A i \in 1..Len(s) : s[i] \in LowerChars \cup DigitChars \cup {"-"}

\* inv = "[^-a-z0-9]", every match replaced by "-"
removeDisallowed(s) ==
    [i \in 1..Len(s) |->
        IF s[i] \in LowerChars \cup DigitChars \cup {"-"} THEN s[i] ELSE "-"]

\* leadingnonalpha = "^[^a-z]+", the match removed
trimLeading(s) ==
    LET alpha == { i \in 1..Len(s) : s[i] \in LowerChars }
    IN  IF alpha = {} THEN << >>
        ELSE SubSeq(s, CHOOSE i \in alpha : \A j \in alpha : i <= j, Len(s))

\* trailing = "[^a-z0-9]+$", the match removed
trimTrailing(s) ==
    LET alnum == { i \in 1..Len(s) : s[i] \in LowerChars \cup DigitChars }
    IN  IF alnum = {} THEN << >>
        ELSE SubSeq(s, 1, CHOOSE i \in alnum : \A j \in alnum : i >= j)

\* if len(newName) > maxLen-4 { newName = newName[0:(maxLen - 4)] }
truncate(s) == IF Len(s) > maxLen - 4 THEN SubSeq(s, 1, maxLen - 4) ELSE s

\* the candidate name of trackName, before the uniqueness loop
sanitize(old) == truncate(trimTrailing(trimLeading(removeDisallowed(toLower(old)))))

RECURSIVE itoa(_)
\* fmt's %v of a non-negative int
itoa(i) ==
    IF i < 10 THEN <<DigitSeq[i + 1]>>
    ELSE itoa(i \div 10) \o <<DigitSeq[(i % 10) + 1]>>

\* fmt.Sprintf("%v-%v", newName, i)
suffixed(newName, i) == newName \o <<"-">> \o itoa(i)

RECURSIVE uniqueLoop(_, _, _, _)
\* the for loop of trackName: n is the current candidate, i the counter
uniqueLoop(newName, n, i, used) ==
    IF n \notin used THEN n
    ELSE uniqueLoop(newName, suffixed(newName, i + 1), i + 1, used)

\* a uniqueness loop whose counter starts one too high
uniqueNameSkipOne(newName, used) ==
    IF newName \notin used THEN newName
    ELSE uniqueLoop(newName, suffixed(newName, 2), 2, used)

\* n := newName; i := 0; for {...}; newName = n
uniqueName(newName, used) == uniqueLoop(newName, newName, 0, used)

\* m[k] = v on a Go map
mapSet(m, k, v) == [x \in DOMAIN m \cup {k} |-> IF x = k THEN v ELSE m[x]]

\* m[k] on a Go map of strings: the zero value "" for a missing key
mapGet(m, k) == IF k \in DOMAIN m THEN m[k] ELSE << >>

\* a trackName whose early return forgets to mark the name as used
trackNameNoMark(r, old) ==
    IF kubeNameRegex(old) /\ Len(old) < maxLen
    THEN [oldToNew |-> mapSet(r.oldToNew, old, old), newNames |-> r.newNames]
    ELSE LET newName == uniqueName(sanitize(old), r.newNames)
         IN  [oldToNew |-> mapSet(r.oldToNew, old, newName),
              newNames |-> r.newNames \cup {newName}]

\* nameRemapper.trackName: the remapper after tracking old
trackName(r, old) ==
    IF kubeNameRegex(old) /\ Len(old) < maxLen
    THEN [oldToNew |-> mapSet(r.oldToNew, old, old),
          newNames |-> r.newNames \cup {old}]
    ELSE LET newName == uniqueName(sanitize(old), r.newNames)
         IN  [oldToNew |-> mapSet(r.oldToNew, old, newName),
              newNames |-> r.newNames \cup {newName}]

\* nameRemapper{oldToNew: make(map[string]string), newNames: make(map[string]bool)}
emptyRemapper == [oldToNew |-> << >>, newNames |-> {}]

-----------------------------------------------------------------------------
(* Inputs of trackName *)

Alphabet == {"a", "A", "1", "-", "_"}

RECURSIVE rep(_, _)
rep(c, n) == IF n = 0 THEN << >> ELSE <<c>> \o rep(c, n - 1)

ShortNames == UNION { [1..n -> Alphabet] : n \in 0..MaxNameLen }

\* names around the collision, trimming and length cases of trackName
ExtraNames ==
    { <<"a","b">>, <<"a","-","b">>, <<"a","_","b">>, <<"a","-","b","-","1">>,
      <<"1","a","_">>,
      rep("a", 62), rep("a", 63),
      rep("a", 58) \o <<"-","b","_">> }

InputNames == ShortNames \cup ExtraNames

-----------------------------------------------------------------------------
(* RemapSpec: one nameRemapper fed any names in any order *)

idle == [Functions |-> << >>, Environments |-> << >>, HTTPTriggers |-> << >>,
         Mqtriggers |-> << >>, TimeTriggers |-> << >>, Watches |-> << >>,
         NameChanges |-> << >>]

RemapInit ==
    /\ nr = emptyRemapper
    /\ calls = << >>
    /\ pc = "remap"
    /\ v1state = idle
    /\ funcMetaSet = {}
    /\ funcs = << >>
    /\ pending = {}
    /\ idx = 0
    /\ pkg = << >>
    /\ issued = << >>

TrackName(old) ==
    /\ pc = "remap"
    /\ Len(calls) < MaxCalls
    /\ nr' = trackName(nr, old)
    /\ calls' = Append(calls, old)
    /\ UNCHANGED <<pc, v1state, funcMetaSet, funcs, pending, idx, pkg, issued>>

RemapNext == \E old \in InputNames : TrackName(old)

RemapSpec == RemapInit /\ [][RemapNext]_vars

-----------------------------------------------------------------------------
(* The v0.1 state read from the server (upgradeDumpV1State, the get calls) *)

FnNames == { <<"f">>, <<"F">> }
EnvNames == { <<"E">> }
TrigNames == { <<"T">> }
ServerUids == { "u1", "u2" }
NoUid == ""

\* v1.Metadata
Metadata(name, uid) == [Name |-> name, Uid |-> uid]

\* v1.Function of the function list: a stored version, with its environment
FunctionRecs ==
    { [Metadata |-> Metadata(n, u), Environment |-> Metadata(e, NoUid)] :
        n \in FnNames, u \in ServerUids, e \in EnvNames }

\* v1.Environment
EnvironmentRecs == { [Metadata |-> Metadata(e, NoUid)] : e \in EnvNames }

\* v1.HTTPTrigger, v1.MessageQueueTrigger, v1.TimeTrigger, v1.Watch: the
\* trigger's own metadata and the metadata of the function it references
TriggerRecs ==
    { [Metadata |-> Metadata(t, NoUid), Function |-> Metadata(n, u)] :
        t \in TrigNames, n \in FnNames, u \in ServerUids \cup {NoUid} }

\* how many entities each of the six collections holds
LenVectors ==
    { ls \in [1..6 -> 0..MaxEntities] :
        ls[1] + ls[2] + ls[3] + ls[4] + ls[5] + ls[6] <= MaxEntities }

-----------------------------------------------------------------------------
(* upgradeDumpV1State *)

RECURSIVE trackAll(_, _)
\* one of the discovery loops: trackName on every name of ns, in order
trackAll(r, ns) ==
    IF ns = << >> THEN r ELSE trackAll(trackName(r, Head(ns)), Tail(ns))

ownNames(coll) == [i \in 1..Len(coll) |-> coll[i].Metadata.Name]

\* the order in which the discovery loops feed names to the remapper
discoveryNames(v) ==
    ownNames(v.Functions) \o ownNames(v.HTTPTriggers) \o ownNames(v.Mqtriggers)
        \o ownNames(v.Watches) \o ownNames(v.TimeTriggers)
        \o ownNames(v.Environments)

\* funcMetaSet after the discovery loops
discoveredMeta(v) ==
    { v.Functions[i].Metadata : i \in 1..Len(v.Functions) }
        \cup { v.HTTPTriggers[i].Function : i \in 1..Len(v.HTTPTriggers) }
        \cup { v.Mqtriggers[i].Function : i \in 1..Len(v.Mqtriggers) }
        \cup { v.Watches[i].Function : i \in 1..Len(v.Watches) }
        \cup { v.TimeTriggers[i].Function : i \in 1..Len(v.TimeTriggers) }

UpgradeInit ==
    /\ nr = emptyRemapper
    /\ calls = << >>
    /\ pc = "discover"
    /\ \E ls \in LenVectors :
          v1state \in [Functions : [1..ls[1] -> FunctionRecs],
                       Environments : [1..ls[2] -> EnvironmentRecs],
                       HTTPTriggers : [1..ls[3] -> TriggerRecs],
                       Mqtriggers : [1..ls[4] -> TriggerRecs],
                       TimeTriggers : [1..ls[5] -> TriggerRecs],
                       Watches : [1..ls[6] -> TriggerRecs],
                       NameChanges : {<< >>}]
    /\ funcMetaSet = {}
    /\ funcs = << >>
    /\ pending = {}
    /\ idx = 0
    /\ pkg = << >>
    /\ issued = << >>

\* lines 172-203: the remapper is made and every collection is walked
Discover ==
    /\ pc = "discover"
    /\ nr' = trackAll(emptyRemapper, discoveryNames(v1state))
    /\ calls' = discoveryNames(v1state)
    /\ funcMetaSet' = discoveredMeta(v1state)
    /\ pending' = discoveredMeta(v1state)
    /\ pc' = "fetch"
    /\ UNCHANGED <<v1state, funcs, idx, pkg, issued>>

\* the function the v0.1 server answers a get of m with: the version asked
\* for, or one of the stored versions when no uid is given
serverAnswers(m) ==
    { [Metadata |-> Metadata(m.Name, u), Environment |-> Metadata(e, NoUid)] :
        u \in (IF m.Uid # NoUid THEN {m.Uid} ELSE ServerUids), e \in EnvNames }

\* one iteration of "for m := range funcMetaSet": the get succeeds
FetchFunction ==
    /\ pc = "fetch"
    /\ \E m \in pending : \E f \in serverAnswers(m) :
          /\ funcs' = mapSet(funcs, f.Metadata, f)
          /\ pending' = pending \ {m}
    /\ UNCHANGED <<nr, calls, pc, v1state, funcMetaSet, idx, pkg, issued>>

\* one iteration of "for m := range funcMetaSet": get ends in log.Fatal
FetchFails ==
    /\ pc = "fetch"
    /\ pending # {}
    /\ pc' = "fatal"
    /\ UNCHANGED <<nr, calls, v1state, funcMetaSet, funcs, pending, idx, pkg, issued>>

\* the sequences that hold every value of the map m exactly once
mapValueOrders(m) ==
    { s \in [1..Cardinality(DOMAIN m) -> { m[k] : k \in DOMAIN m }] :
        \A k \in DOMAIN m : \E i \in DOMAIN s : s[i] = m[k] }

\* lines 225-243: the functions of the map replace the function list, the
\* name changes are stored and the state is written
WriteDump ==
    /\ pc = "fetch"
    /\ pending = {}
    /\ \E fs \in mapValueOrders(funcs) :
          v1state' = [v1state EXCEPT !.Functions = fs,
                                     !.NameChanges = nr.oldToNew]
    /\ pc' = "dumped"
    /\ UNCHANGED <<nr, calls, funcMetaSet, funcs, pending, idx, pkg, issued>>

-----------------------------------------------------------------------------
(* upgradeRestoreState *)

\* a function reference that keeps the v0.1 name
functionRefKeepsOldName(m, nameRemap) == m.Name

\* functionRefFromV1Metadata: Name: nameRemap[m.Name]
functionRefFromV1Metadata(m, nameRemap) == mapGet(nameRemap, m.Name)

\* crdMetadataFromV1Metadata: Name: nameRemap[m.Name]
crdMetadataFromV1Metadata(m, nameRemap) == mapGet(nameRemap, m.Name)

\* uniuri.NewLen(6): random characters, two of the possible draws
RandomStrings == { <<"A","b","3","d","E","f">>, <<"x","y","z","0","1","2">> }

\* fmt.Sprintf("%v-%v", fnName, strings.ToLower(uniuri.NewLen(6)))
pkgNameOf(fnName, random) == fnName \o <<"-">> \o toLower(random)

\* a restore pass that creates the HTTP triggers before the functions
restoreOrderTriggersFirst ==
    <<"httptriggers", "functions", "environments", "mqtriggers",
      "timetriggers", "watches">>

\* the loops of upgradeRestoreState, in the order of the code
restoreOrder ==
    <<"functions", "environments", "httptriggers", "mqtriggers",
      "timetriggers", "watches">>

\* the collection a loop of upgradeRestoreState ranges over
collectionOf(v, phase) ==
    CASE phase = "functions" -> v.Functions
      [] phase = "environments" -> v.Environments
      [] phase = "httptriggers" -> v.HTTPTriggers
      [] phase = "mqtriggers" -> v.Mqtriggers
      [] phase = "timetriggers" -> v.TimeTriggers
      [] phase = "watches" -> v.Watches

RECURSIVE firstLoopFrom(_, _)
\* the first loop, from the k-th on, whose collection is not empty
firstLoopFrom(v, k) ==
    IF k > Len(restoreOrder) THEN [pc |-> "done", idx |-> 0]
    ELSE IF Len(collectionOf(v, restoreOrder[k])) > 0
         THEN [pc |-> restoreOrder[k], idx |-> 1]
         ELSE firstLoopFrom(v, k + 1)

\* where the restore pass stands after the i-th iteration of a loop
afterIteration(v, phase, i) ==
    IF i < Len(collectionOf(v, phase)) THEN [pc |-> phase, idx |-> i + 1]
    ELSE firstLoopFrom(v,
            1 + CHOOSE k \in 1..Len(restoreOrder) : restoreOrder[k] = phase)

\* the target platform takes a creation call only for a non-empty name that
\* no entity of the same kind has yet (ValidationError, ConflictError)
platformAccepts(kind, name) ==
    /\ name # << >>
    /\ \A i \in 1..Len(issued) :
          ~(issued[i].ok /\ issued[i].kind = kind /\ issued[i].name = name)

\* a creation call as the client receives it: the created entity's name and
\* the name it references (empty when the kind has no reference), with the
\* v0.1 names they were resolved from
creationCall(kind, name, ref, from, fromRef, ok) ==
    [kind |-> kind, name |-> name, ref |-> ref,
     from |-> from, fromRef |-> fromRef, ok |-> ok]

\* lines 279-293: the dumped state is read back and the client is made
RestoreStart ==
    /\ pc = "dumped"
    /\ LET pos == firstLoopFrom(v1state, 1)
       IN  pc' = pos.pc /\ idx' = pos.idx
    /\ UNCHANGED <<nr, calls, v1state, funcMetaSet, funcs, pending, pkg, issued>>

\* lines 299-314: temporary file, base64 decoding or upload end in a fatal error
PrepareFails ==
    /\ pc = "functions"
    /\ pkg = << >>
    /\ pc' = "fatal"
    /\ UNCHANGED <<nr, calls, v1state, funcMetaSet, funcs, pending, idx, pkg, issued>>

\* lines 299-331: client.PackageCreate for the idx-th function
CreatePackage ==
    /\ pc = "functions"
    /\ pkg = << >>
    /\ LET f == v1state.Functions[idx]
           fnName == mapGet(v1state.NameChanges, f.Metadata.Name)
           env == mapGet(v1state.NameChanges, f.Environment.Name)
       IN  \E random \in RandomStrings, ok \in BOOLEAN :
              LET pkgName == pkgNameOf(fnName, random)
              IN  /\ ok => platformAccepts("package", pkgName)
                  /\ issued' = Append(issued,
                        creationCall("package", pkgName, env,
                                     f.Metadata.Name, f.Environment.Name, ok))
                  /\ pkg' = IF ok THEN <<pkgName>> ELSE pkg
                  /\ pc' = IF ok THEN pc ELSE "fatal"
    /\ UNCHANGED <<nr, calls, v1state, funcMetaSet, funcs, pending, idx>>

\* lines 332-345: client.FunctionCreate for the idx-th function
CreateFunction ==
    /\ pc = "functions"
    /\ pkg # << >>
    /\ LET f == v1state.Functions[idx]
           name == crdMetadataFromV1Metadata(f.Metadata, v1state.NameChanges)
           env == mapGet(v1state.NameChanges, f.Environment.Name)
           pos == afterIteration(v1state, "functions", idx)
       IN  \E ok \in BOOLEAN :
              /\ ok => platformAccepts("function", name)
              /\ issued' = Append(issued,
                    creationCall("function", name, env,
                                 f.Metadata.Name, f.Environment.Name, ok))
              /\ pc' = IF ok THEN pos.pc ELSE "fatal"
              /\ idx' = IF ok THEN pos.idx ELSE idx
    /\ pkg' = << >>
    /\ UNCHANGED <<nr, calls, v1state, funcMetaSet, funcs, pending>>

\* lines 350-361: client.EnvironmentCreate for the idx-th environment
CreateEnvironment ==
    /\ pc = "environments"
    /\ LET e == v1state.Environments[idx]
           name == crdMetadataFromV1Metadata(e.Metadata, v1state.NameChanges)
           pos == afterIteration(v1state, "environments", idx)
       IN  \E ok \in BOOLEAN :
              /\ ok => platformAccepts("environment", name)
              /\ issued' = Append(issued,
                    creationCall("environment", name, << >>,
                                 e.Metadata.Name, << >>, ok))
              /\ pc' = IF ok THEN pos.pc ELSE "fatal"
              /\ idx' = IF ok THEN pos.idx ELSE idx
    /\ UNCHANGED <<nr, calls, v1state, funcMetaSet, funcs, pending, pkg>>

\* one iteration of a trigger loop: the creation call for the idx-th entity
\* of the collection, with its function reference
triggerCreate(phase) ==
    LET t == collectionOf(v1state, phase)[idx]
        name == crdMetadataFromV1Metadata(t.Metadata, v1state.NameChanges)
        ref == functionRefFromV1Metadata(t.Function, v1state.NameChanges)
        pos == afterIteration(v1state, phase, idx)
    IN  \E ok \in BOOLEAN :
           /\ ok => platformAccepts(phase, name)
           /\ issued' = Append(issued,
                 creationCall(phase, name, ref,
                              t.Metadata.Name, t.Function.Name, ok))
           /\ pc' = IF ok THEN pos.pc ELSE "fatal"
           /\ idx' = IF ok THEN pos.idx ELSE idx

\* lines 364-374: client.HTTPTriggerCreate
CreateHTTPTrigger ==
    /\ pc = "httptriggers"
    /\ triggerCreate("httptriggers")
    /\ UNCHANGED <<nr, calls, v1state, funcMetaSet, funcs, pending, pkg>>

\* lines 377-388: client.MessageQueueTriggerCreate
CreateMqtrigger ==
    /\ pc = "mqtriggers"
    /\ triggerCreate("mqtriggers")
    /\ UNCHANGED <<nr, calls, v1state, funcMetaSet, funcs, pending, pkg>>

\* lines 391-400: client.TimeTriggerCreate
CreateTimeTrigger ==
    /\ pc = "timetriggers"
    /\ triggerCreate("timetriggers")
    /\ UNCHANGED <<nr, calls, v1state, funcMetaSet, funcs, pending, pkg>>

\* lines 403-413: client.WatchCreate
CreateWatch ==
    /\ pc = "watches"
    /\ triggerCreate("watches")
    /\ UNCHANGED <<nr, calls, v1state, funcMetaSet, funcs, pending, pkg>>

UpgradeNext ==
    \/ Discover
    \/ FetchFunction
    \/ FetchFails
    \/ WriteDump
    \/ RestoreStart
    \/ PrepareFails
    \/ CreatePackage
    \/ CreateFunction
    \/ CreateEnvironment
    \/ CreateHTTPTrigger
    \/ CreateMqtrigger
    \/ CreateTimeTrigger
    \/ CreateWatch

UpgradeSpec == UpgradeInit /\ [][UpgradeNext]_vars

-----------------------------------------------------------------------------
(* The target naming constraint, as the specification states it *)

\* starts with a lowercase letter or digit, holds only lowercase letters,
\* digits and hyphens, does not end with a hyphen
TargetPattern(s) ==
    /\ s # << >>
    /\ \A i \in 1..Len(s) : s[i] \in LowerChars \cup DigitChars \cup {"-"}
    /\ Head(s) \notin {"-"}
    /\ s[Len(s)] # "-"

TargetValid(s) == TargetPattern(s) /\ Len(s) < 63

RECURSIVE Replay(_)
\* the remapper after the trackName calls of cs, made in order on a fresh one
Replay(cs) ==
    IF cs = << >> THEN emptyRemapper
    ELSE trackName(Replay(SubSeq(cs, 1, Len(cs) - 1)), cs[Len(cs)])

\* the argument of the trackName call a step makes
StepArg == calls'[Len(calls')]
IsTrackStep == Len(calls') = Len(calls) + 1

-----------------------------------------------------------------------------
(* Claims about the name remapper (RemapSpec) *)

\* C1 (as claimed): injectivity: after any sequence of trackName calls no two
\* distinct old names of oldToNew map to the same new name.
C1_Injective ==
    \A a, b \in DOMAIN nr.oldToNew :
        a # b => nr.oldToNew[a] # nr.oldToNew[b]

\* C2 (as claimed): idempotence on repeat lookup: a trackName call on a name
\* that is already tracked changes neither oldToNew nor the used-name set.
C2_RepeatIsNoOp ==
    [][(IsTrackStep /\ StepArg \in DOMAIN nr.oldToNew) => nr' = nr]_vars

\* C3 (as claimed): validity: every value of oldToNew matches the target
\* pattern and is shorter than 63 characters.
C3_AllValid ==
    \A old \in DOMAIN nr.oldToNew : TargetValid(nr.oldToNew[old])

C9_Sequence == << <<"a","b">>, <<"a","-","b">>, <<"a","_","b">> >>

\* C9 (as claimed): on a fresh remapper "ab", "a-b", "a_b" in sequence yield
\* "a-b", "a-b-1", "a-b-2".
C9_Original ==
    calls = C9_Sequence =>
        /\ nr.oldToNew[<<"a","b">>] = <<"a","-","b">>
        /\ nr.oldToNew[<<"a","-","b">>] = <<"a","-","b","-","1">>
        /\ nr.oldToNew[<<"a","_","b">>] = <<"a","-","b","-","2">>

\* C9 (amended): on a fresh remapper "ab", "a-b", "a_b" in sequence yield
\* "ab", "a-b", "a-b-1": the first two are already valid and kept, the third
\* sanitizes to the used "a-b" and takes the first free suffix.
C9_Amended ==
    calls = C9_Sequence =>
        /\ nr.oldToNew[<<"a","b">>] = <<"a","b">>
        /\ nr.oldToNew[<<"a","-","b">>] = <<"a","-","b">>
        /\ nr.oldToNew[<<"a","_","b">>] = <<"a","-","b","-","1">>
        /\ nr.newNames = {<<"a","b">>, <<"a","-","b">>, <<"a","-","b","-","1">>}

C9_Witness ==
    /\ calls = C9_Sequence
    /\ DOMAIN nr.oldToNew = Range(C9_Sequence)

\* C10: fixed point on already-valid input: a trackName call on a name that
\* matches the target pattern, is shorter than 63 and is not yet a used name
\* maps it to itself, marks it used and changes no other entry of oldToNew.
C10_FixedPoint ==
    [][(IsTrackStep /\ TargetValid(StepArg) /\ StepArg \notin nr.newNames) =>
          /\ StepArg \in DOMAIN nr'.oldToNew
          /\ nr'.oldToNew[StepArg] = StepArg
          /\ StepArg \in nr'.newNames
          /\ \A o \in DOMAIN nr.oldToNew \ {StepArg} :
                o \in DOMAIN nr'.oldToNew /\ nr'.oldToNew[o] = nr.oldToNew[o]
          /\ DOMAIN nr'.oldToNew = DOMAIN nr.oldToNew \cup {StepArg}]_vars

\* a valid, unused name was tracked on a remapper that already held a renamed
\* entry, and is mapped to itself
C10_Witness ==
    /\ Len(calls) >= 2
    /\ LET last == calls[Len(calls)]
           before == Replay(SubSeq(calls, 1, Len(calls) - 1))
       IN  /\ TargetValid(last)
           /\ last \notin before.newNames
           /\ \E o \in DOMAIN before.oldToNew : before.oldToNew[o] # o
           /\ nr.oldToNew[last] = last
           /\ last \in nr.newNames

-----------------------------------------------------------------------------
(* Claims about the dump and restore passes (UpgradeSpec) *)

TriggerKinds == {"httptriggers", "mqtriggers", "timetriggers", "watches"}

CallsOfKind(kinds) == { i \in 1..Len(issued) : issued[i].kind \in kinds }

\* every v0.1 name of the state: own names and reference names
ReferencedNames(v) ==
    LET triggers == v.HTTPTriggers \o v.Mqtriggers \o v.TimeTriggers \o v.Watches
    IN  Range(ownNames(v.Functions)) \cup Range(ownNames(v.Environments))
          \cup Range(ownNames(triggers))
          \cup { triggers[i].Function.Name : i \in 1..Len(triggers) }
          \cup { v.Functions[i].Environment.Name : i \in 1..Len(v.Functions) }

C5_Total ==
    pc \notin {"remap", "discover"} =>
        ReferencedNames(v1state) \subseteq DOMAIN nr.oldToNew

\* C6 (as claimed): deduplication by name: the dumped function collection
\* holds exactly one function per distinct name of the logical function set.
C6_OnePerName ==
    pc = "dumped" =>
        /\ \A i, j \in 1..Len(v1state.Functions) :
              i # j => v1state.Functions[i].Metadata.Name
                          # v1state.Functions[j].Metadata.Name
        /\ Range(ownNames(v1state.Functions)) = { m.Name : m \in funcMetaSet }

PackageBeforeFunction ==
    \A j \in CallsOfKind({"function"}) :
        \E i \in CallsOfKind({"package"}) :
            i < j /\ issued[i].ok /\ issued[i].from = issued[j].from

FunctionsBeforeTriggers ==
    \A i \in CallsOfKind({"function"}) : \A j \in CallsOfKind(TriggerKinds) :
        i < j

\* C7 (as claimed): creation order: environments and a function's package
\* before the function, functions before the triggers that reference them.
C7_Original ==
    /\ \A i \in CallsOfKind({"environment"}) : \A j \in CallsOfKind({"function"}) :
          i < j
    /\ PackageBeforeFunction
    /\ FunctionsBeforeTriggers

\* C7 (amended): creation order: a function's package before the function,
\* every package and function before every environment, and every function
\* and environment before every trigger and watch.
C7_Amended ==
    /\ PackageBeforeFunction
    /\ \A i \in CallsOfKind({"package", "function"}) :
          \A j \in CallsOfKind({"environment"}) : i < j
    /\ FunctionsBeforeTriggers
    /\ \A i \in CallsOfKind({"environment"}) : \A j \in CallsOfKind(TriggerKinds) :
          i < j

\* a function, an environment and a trigger have all been created
C7_Witness ==
    /\ CallsOfKind({"package"}) # {}
    /\ CallsOfKind({"function"}) # {}
    /\ CallsOfKind({"environment"}) # {}
    /\ \E j \in CallsOfKind(TriggerKinds) : \E i \in CallsOfKind({"function"}) :
          issued[j].ok /\ issued[j].ref = issued[i].name

\* C8 (as claimed): no creation call is issued for an entity whose own name
\* or reference name has no entry in the name-change table.
C8_NoUnresolvedIssued ==
    \A i \in 1..Len(issued) :
        /\ issued[i].from \in DOMAIN v1state.NameChanges
        /\ issued[i].kind # "environment" =>
              issued[i].fromRef \in DOMAIN v1state.NameChanges

=============================================================================
